---- MODULE Spec2Model ----
(***************************************************************************)
(* A model of egui_glow's Painter (crates/egui_glow/src/painter.rs): the   *)
(* texture table, the deferred-delete list, the native identifier counter, *)
(* the destroyed flag, and the GL commands each public operation issues.   *)
(*                                                                         *)
(* A GL texture handle stands for one texture object: create_texture       *)
(* returns an object never handed out before.  The host may pass any       *)
(* object it holds (also one the Painter already tracks) to                *)
(* register_native_texture and replace_native_texture.                     *)
(*                                                                         *)
(* A panic (assert!, debug_assert!) ends the call where it is raised; the  *)
(* fields written before it keep their values, and outcome = "panic".     *)
(***************************************************************************)
EXTENDS Integers, Sequences, FiniteSets, TLC

VARIABLES
    textures,             \* HashMap<TextureId, glow::Texture>
    next_native_tex_id,   \* u64, as four 16-bit limbs, most significant first
    textures_to_destroy,  \* Vec<glow::Texture>
    destroyed,            \* bool
    supports_srgb_framebuffer, \* bool, fixed by Painter::new
    gl,                   \* the state of the glow::Context when the last call ended
    nextHandle,           \* the next texture object create_texture hands out
    calls,                \* number of register_native_texture calls made so far
    pre,                  \* the Painter's fields when the last call began
    lastOp,               \* the last call and its arguments
    outcome,              \* "ok": the last call returned; "panic": it panicked
    ret,                  \* the TextureId the last call returned (or NoId)
    glLog,                \* the GL commands the last call issued, in order
    diag,                 \* the log::warn! diagnostics the last call emitted
    draws,                \* the context state at each draw_elements of the last call
    deleted,              \* the texture objects a delete_texture was issued for
    redeleted,            \* those a delete_texture was issued for more than once
    allocated,            \* those a tex_image_2d was issued for
    aliased               \* the host has passed an object it had passed before

vars == <<textures, next_native_tex_id, textures_to_destroy, destroyed,
          supports_srgb_framebuffer, gl, nextHandle, calls, pre, lastOp,
          outcome, ret, glLog, diag, draws, deleted, redeleted, allocated,
          aliased>>

---------------------------------------------------------------------------
\* Bounds of the model.

\* Texture objects the GL context can hand out or the host can hold.
MaxHandle == 2
\* register_native_texture calls plus displaced handles explored.
MaxNative == 2
\* Length of a primitive list.
MaxPrims == 2

---------------------------------------------------------------------------
\* u64 arithmetic on four 16-bit limbs (TLC's integers are 32 bits wide).

LimbBase == 65536

\* 1 << 32
NativeIdStart == <<0, 1, 0, 0>>

U64Zero == <<0, 0, 0, 0>>

\* n + 1 on u64 (wrapping; the model never reaches the wrap).
U64Inc(n) ==
    IF n[4] + 1 < LimbBase THEN <<n[1], n[2], n[3], n[4] + 1>>
    ELSE IF n[3] + 1 < LimbBase THEN <<n[1], n[2], n[3] + 1, 0>>
    ELSE IF n[2] + 1 < LimbBase THEN <<n[1], n[2] + 1, 0, 0>>
    ELSE IF n[1] + 1 < LimbBase THEN <<n[1] + 1, 0, 0, 0>>
    ELSE U64Zero

\* a < b on u64.
U64Less(a, b) ==
    \E i \in 1..4 : a[i] < b[i] /\ \A j \in 1..(i - 1) : a[j] = b[j]

RECURSIVE U64Plus(_, _)
\* n + k for a small natural k.
U64Plus(n, k) == IF k = 0 THEN n ELSE U64Plus(U64Inc(n), k - 1)

---------------------------------------------------------------------------
\* egui::TextureId

Managed(n) == [kind |-> "Managed", n |-> n]
User(n) == [kind |-> "User", n |-> n]

\* No identifier (the value of ret when the call returns none).
NoId == [kind |-> "None", n |-> U64Zero]

\* The identifiers the host uses: the toolkit's font texture and the first
\* identifier of the native range.
TexIds == {Managed(U64Zero), User(NativeIdStart)}

Handles == 1..MaxHandle

\* glow handles of the objects Painter::new creates.
Program == 1
Vbo == 1
ElementArrayBuffer == 2

\* gl.get_parameter_i32(glow::MAX_TEXTURE_SIZE)
MaxTextureSize == 2

---------------------------------------------------------------------------
\* The glow::Context: the pieces of GL state the Painter sets or relies on.

\* The state of a context on which nothing has been set yet.
GlInit ==
    [scissor_test |-> FALSE, cull_face |-> FALSE, depth_test |-> FALSE,
     color_mask |-> TRUE, blend |-> FALSE, blend_equation |-> "FUNC_ADD",
     blend_func |-> "ONE,ZERO", framebuffer_srgb |-> FALSE,
     viewport |-> <<0, 0, 0, 0>>, scissor |-> <<0, 0, 0, 0>>,
     program |-> 0, u_screen_size |-> <<0, 0, 0>>, u_sampler |-> 0,
     active_texture |-> 0, vao |-> FALSE, element_array_buffer |-> 0,
     array_buffer |-> 0, texture_2d |-> 0]

\* The context after a callback that leaves none of the fixed state as
\* prepare_painting set it.
GlTrashed ==
    [scissor_test |-> FALSE, cull_face |-> TRUE, depth_test |-> TRUE,
     color_mask |-> FALSE, blend |-> FALSE, blend_equation |-> "FUNC_SUBTRACT",
     blend_func |-> "ONE,ZERO", framebuffer_srgb |-> TRUE,
     viewport |-> <<1, 1, 1, 1>>, scissor |-> <<1, 1, 1, 1>>,
     program |-> 2, u_screen_size |-> <<1, 1, 1>>, u_sampler |-> 1,
     active_texture |-> 1, vao |-> FALSE, element_array_buffer |-> 0,
     array_buffer |-> 0, texture_2d |-> 0]

\* What one GL command does to the context state.  "callback.f" stands for
\* all the commands one render callback issues: arg tells what they add up to
\* (<<0>>: the context is left as it was, <<1>>: it is left as GlTrashed).
GlExec(g, cmd, arg) ==
    CASE cmd = "enable(SCISSOR_TEST)" -> [g EXCEPT !.scissor_test = TRUE]
      [] cmd = "disable(SCISSOR_TEST)" -> [g EXCEPT !.scissor_test = FALSE]
      [] cmd = "disable(CULL_FACE)" -> [g EXCEPT !.cull_face = FALSE]
      [] cmd = "disable(DEPTH_TEST)" -> [g EXCEPT !.depth_test = FALSE]
      [] cmd = "color_mask(true,true,true,true)" -> [g EXCEPT !.color_mask = TRUE]
      [] cmd = "enable(BLEND)" -> [g EXCEPT !.blend = TRUE]
      [] cmd = "blend_equation_separate(FUNC_ADD,FUNC_ADD)" ->
            [g EXCEPT !.blend_equation = "FUNC_ADD"]
      [] cmd = "blend_func_separate(ONE,ONE_MINUS_SRC_ALPHA,ONE_MINUS_DST_ALPHA,ONE)" ->
            [g EXCEPT !.blend_func = "ONE,ONE_MINUS_SRC_ALPHA,ONE_MINUS_DST_ALPHA,ONE"]
      [] cmd = "disable(FRAMEBUFFER_SRGB)" -> [g EXCEPT !.framebuffer_srgb = FALSE]
      [] cmd = "viewport" -> [g EXCEPT !.viewport = arg]
      [] cmd = "scissor" -> [g EXCEPT !.scissor = arg]
      [] cmd = "use_program" -> [g EXCEPT !.program = arg[1]]
      [] cmd = "uniform_2_f32(u_screen_size)" -> [g EXCEPT !.u_screen_size = arg]
      [] cmd = "uniform_1_i32(u_sampler)" -> [g EXCEPT !.u_sampler = arg[1]]
      [] cmd = "active_texture(TEXTURE0)" -> [g EXCEPT !.active_texture = 0]
      [] cmd = "vao.bind" -> [g EXCEPT !.vao = TRUE]
      [] cmd = "vao.unbind" -> [g EXCEPT !.vao = FALSE]
      [] cmd = "bind_buffer(ELEMENT_ARRAY_BUFFER)" ->
            [g EXCEPT !.element_array_buffer = arg[1]]
      [] cmd = "bind_buffer(ARRAY_BUFFER)" -> [g EXCEPT !.array_buffer = arg[1]]
      [] cmd = "bind_texture(TEXTURE_2D)" -> [g EXCEPT !.texture_2d = arg[1]]
      [] cmd = "callback.f" -> IF arg = <<1>> THEN GlTrashed ELSE g
      [] OTHER -> g

RECURSIVE Replay(_, _, _)
\* The context after the first k commands of log, started in state g.
Replay(g, log, k) ==
    IF k = 0 THEN g
    ELSE GlExec(Replay(g, log, k - 1), log[k].cmd, log[k].arg)

\* The record an operation works on: the Painter's fields, the context, and
\* what the call has issued so far.  The context is kept as the state the
\* call was entered in (entry) and the commands issued since (log).  at is
\* the index of the primitive being painted (0 outside the loop); panic is
\* set when an assertion has failed.  Between two calls the host and its
\* callbacks use the context as they like, so a call starts from a context
\* state g of the host's making.
Machine(g) ==
    [textures |-> textures, next_native_tex_id |-> next_native_tex_id,
     textures_to_destroy |-> textures_to_destroy, destroyed |-> destroyed,
     supports_srgb_framebuffer |-> supports_srgb_framebuffer,
     entry |-> g, nextHandle |-> nextHandle,
     log |-> <<>>, diag |-> <<>>, draws |-> <<>>, at |-> 0, panic |-> FALSE,
     ret |-> NoId]

\* The state of the context: every command issued has been executed.
GlOf(m) == Replay(m.entry, m.log, Len(m.log))

\* self.gl.<cmd>(arg)
Emit(m, cmd, arg) ==
    [m EXCEPT !.log = Append(@, [cmd |-> cmd, arg |-> arg, at |-> m.at])]

\* log::warn!(msg)
Warn(m, msg) == [m EXCEPT !.diag = Append(@, [msg |-> msg, at |-> m.at])]

\* panic!()
Panic(m) == [m EXCEPT !.panic = TRUE]

\* The map m with key k bound to v.
MapInsert(f, k, v) == [x \in (DOMAIN f) \cup {k} |-> IF x = k THEN v ELSE f[x]]

\* The map m without key k.
MapRemove(f, k) == [x \in (DOMAIN f) \ {k} |-> f[x]]

\* The values of a sequence.
Range(s) == {s[i] : i \in DOMAIN s}

---------------------------------------------------------------------------
\* Painter::prepare_painting

prepare_painting(m, size, pixels_per_point) ==
    LET m1 == Emit(m, "enable(SCISSOR_TEST)", <<>>)
        m2 == Emit(m1, "disable(CULL_FACE)", <<>>)
        m3 == Emit(m2, "disable(DEPTH_TEST)", <<>>)
        m4 == Emit(m3, "color_mask(true,true,true,true)", <<>>)
        m5 == Emit(m4, "enable(BLEND)", <<>>)
        m6 == Emit(m5, "blend_equation_separate(FUNC_ADD,FUNC_ADD)", <<>>)
        m7 == Emit(m6, "blend_func_separate(ONE,ONE_MINUS_SRC_ALPHA,ONE_MINUS_DST_ALPHA,ONE)", <<>>)
        m8 == IF m.supports_srgb_framebuffer
              THEN Emit(m7, "disable(FRAMEBUFFER_SRGB)", <<>>)
              ELSE m7
        m9 == Emit(m8, "viewport", <<0, 0, size[1], size[2]>>)
        m10 == Emit(m9, "use_program", <<Program>>)
        m11 == Emit(m10, "uniform_2_f32(u_screen_size)",
                    <<size[1], size[2], pixels_per_point>>)
        m12 == Emit(m11, "uniform_1_i32(u_sampler)", <<0>>)
        m13 == Emit(m12, "active_texture(TEXTURE0)", <<>>)
        m14 == Emit(m13, "vao.bind", <<>>)
    IN  Emit(m14, "bind_buffer(ELEMENT_ARRAY_BUFFER)", <<ElementArrayBuffer>>)

---------------------------------------------------------------------------
\* set_clip_rect.  Coordinates of the clip rectangle and pixels_per_point are
\* in tenths, so a product is in hundredths.

\* The cast to i32 without the round before it: towards zero.
RoundHundredths_truncates(n) ==
    IF n >= 0 THEN n \div 100 ELSE -((-n) \div 100)

\* f32::round of n hundredths, as i32: to the nearest integer, ties away
\* from zero.
RoundHundredths(n) ==
    IF n >= 0 THEN (n + 50) \div 100 ELSE -((50 - n) \div 100)

\* i32::clamp
Clamp(v, lo, hi) == IF v < lo THEN lo ELSE IF v > hi THEN hi ELSE v

\* set_clip_rect clamping the maximum to [0, size] instead of [minimum, size].
ScissorOf_max_from_zero(size, pixels_per_point, clip_rect) ==
    LET rmin_x == RoundHundredths(pixels_per_point * clip_rect.min[1])
        rmin_y == RoundHundredths(pixels_per_point * clip_rect.min[2])
        rmax_x == RoundHundredths(pixels_per_point * clip_rect.max[1])
        rmax_y == RoundHundredths(pixels_per_point * clip_rect.max[2])
        clip_min_x == Clamp(rmin_x, 0, size[1])
        clip_min_y == Clamp(rmin_y, 0, size[2])
        clip_max_x == Clamp(rmax_x, 0, size[1])
        clip_max_y == Clamp(rmax_y, 0, size[2])
    IN  <<clip_min_x, size[2] - clip_max_y,
          clip_max_x - clip_min_x, clip_max_y - clip_min_y>>

\* The arguments of the gl.scissor call.
ScissorOf(size, pixels_per_point, clip_rect) ==
    LET rmin_x == RoundHundredths(pixels_per_point * clip_rect.min[1])
        rmin_y == RoundHundredths(pixels_per_point * clip_rect.min[2])
        rmax_x == RoundHundredths(pixels_per_point * clip_rect.max[1])
        rmax_y == RoundHundredths(pixels_per_point * clip_rect.max[2])
        clip_min_x == Clamp(rmin_x, 0, size[1])
        clip_min_y == Clamp(rmin_y, 0, size[2])
        clip_max_x == Clamp(rmax_x, clip_min_x, size[1])
        clip_max_y == Clamp(rmax_y, clip_min_y, size[2])
    IN  <<clip_min_x, size[2] - clip_max_y,
          clip_max_x - clip_min_x, clip_max_y - clip_min_y>>

set_clip_rect(m, size, pixels_per_point, clip_rect) ==
    Emit(m, "scissor", ScissorOf(size, pixels_per_point, clip_rect))

---------------------------------------------------------------------------
\* Painter::assert_not_destroyed: TRUE when the assertion holds.

assert_not_destroyed(m) == ~m.destroyed

---------------------------------------------------------------------------
\* Painter::paint_mesh.  A mesh is [texture_id, valid]; valid is the value
\* of mesh.is_valid().  debug_assertions tells whether debug_assert! is
\* compiled in.

\* Painter::texture: TRUE when the identifier is bound.
HasTexture(m, texture_id) == texture_id \in DOMAIN m.textures

\* paint_mesh giving up on a texture it does not find.
paint_mesh_aborts(m, mesh, debug_assertions) ==
    IF debug_assertions /\ ~mesh.valid THEN Panic(m)
    ELSE IF HasTexture(m, mesh.texture_id) THEN
        LET texture == m.textures[mesh.texture_id]
            m1 == Emit(m, "bind_buffer(ARRAY_BUFFER)", <<Vbo>>)
            m2 == Emit(m1, "buffer_data_u8_slice(ARRAY_BUFFER)", <<>>)
            m3 == Emit(m2, "bind_buffer(ELEMENT_ARRAY_BUFFER)", <<ElementArrayBuffer>>)
            m4 == Emit(m3, "buffer_data_u8_slice(ELEMENT_ARRAY_BUFFER)", <<>>)
            m5 == Emit(m4, "bind_texture(TEXTURE_2D)", <<texture>>)
            m6 == Emit(m5, "draw_elements", <<>>)
        IN  [m6 EXCEPT !.draws = Append(@, GlOf(m5))]
    ELSE Panic(Warn(m, "Failed to find texture"))

\* paint_mesh returning at a mesh that is not valid, in every build.
paint_mesh_skips_invalid(m, mesh, debug_assertions) ==
    IF ~mesh.valid THEN m
    ELSE IF HasTexture(m, mesh.texture_id) THEN
        LET texture == m.textures[mesh.texture_id]
            m1 == Emit(m, "bind_buffer(ARRAY_BUFFER)", <<Vbo>>)
            m2 == Emit(m1, "buffer_data_u8_slice(ARRAY_BUFFER)", <<>>)
            m3 == Emit(m2, "bind_buffer(ELEMENT_ARRAY_BUFFER)", <<ElementArrayBuffer>>)
            m4 == Emit(m3, "buffer_data_u8_slice(ELEMENT_ARRAY_BUFFER)", <<>>)
            m5 == Emit(m4, "bind_texture(TEXTURE_2D)", <<texture>>)
            m6 == Emit(m5, "draw_elements", <<>>)
        IN  [m6 EXCEPT !.draws = Append(@, GlOf(m5))]
    ELSE Warn(m, "Failed to find texture")

\* paint_mesh creating the texture it does not find, as set_texture does.
paint_mesh_creates_missing(m, mesh, debug_assertions) ==
    IF debug_assertions /\ ~mesh.valid THEN Panic(m)
    ELSE
        LET m0 == IF HasTexture(m, mesh.texture_id) THEN m
                  ELSE [Emit(m, "create_texture", <<m.nextHandle>>) EXCEPT
                            !.textures = MapInsert(@, mesh.texture_id, m.nextHandle),
                            !.nextHandle = @ + 1]
            texture == m0.textures[mesh.texture_id]
            m1 == Emit(m0, "bind_buffer(ARRAY_BUFFER)", <<Vbo>>)
            m2 == Emit(m1, "buffer_data_u8_slice(ARRAY_BUFFER)", <<>>)
            m3 == Emit(m2, "bind_buffer(ELEMENT_ARRAY_BUFFER)", <<ElementArrayBuffer>>)
            m4 == Emit(m3, "buffer_data_u8_slice(ELEMENT_ARRAY_BUFFER)", <<>>)
            m5 == Emit(m4, "bind_texture(TEXTURE_2D)", <<texture>>)
            m6 == Emit(m5, "draw_elements", <<>>)
        IN  [m6 EXCEPT !.draws = Append(@, GlOf(m5))]

paint_mesh(m, mesh, debug_assertions) ==
    IF debug_assertions /\ ~mesh.valid THEN Panic(m)
    ELSE IF HasTexture(m, mesh.texture_id) THEN
        LET texture == m.textures[mesh.texture_id]
            m1 == Emit(m, "bind_buffer(ARRAY_BUFFER)", <<Vbo>>)
            m2 == Emit(m1, "buffer_data_u8_slice(ARRAY_BUFFER)", <<>>)
            m3 == Emit(m2, "bind_buffer(ELEMENT_ARRAY_BUFFER)", <<ElementArrayBuffer>>)
            m4 == Emit(m3, "buffer_data_u8_slice(ELEMENT_ARRAY_BUFFER)", <<>>)
            m5 == Emit(m4, "bind_texture(TEXTURE_2D)", <<texture>>)
            m6 == Emit(m5, "draw_elements", <<>>)
        IN  [m6 EXCEPT !.draws = Append(@, GlOf(m5))]
    ELSE Warn(m, "Failed to find texture")

---------------------------------------------------------------------------
\* Painter::paint_primitives.  A primitive is
\*   [clip_rect, kind |-> "Mesh", texture_id, valid, ...] or
\*   [clip_rect, kind |-> "Callback", is_positive, viewport_px, payload, effect, ...]
\* where is_positive is the value of callback.rect.is_positive(), viewport_px
\* the value of info.viewport_in_pixels(), payload "CallbackFn" or another
\* type, and effect what the callback does to the context (see GlExec).

\* (callback.f)(info, self): the callback only gets &Painter, so it can
\* change the context and nothing of the Painter.
InvokeCallback(m, effect) == Emit(m, "callback.f", <<effect>>)

\* The Primitive::Callback arm without the restore after the callback.
paint_callback_no_restore(m, callback, size, pixels_per_point) ==
    IF callback.is_positive THEN
        LET m1 == Emit(m, "viewport", callback.viewport_px)
        IN  IF callback.payload = "CallbackFn"
            THEN InvokeCallback(m1, callback.effect)
            ELSE Warn(m1, "Unsupported render callback")
    ELSE m

\* The Primitive::Callback arm without the test of the declared rectangle.
paint_callback_ignores_rect(m, callback, size, pixels_per_point) ==
    LET m1 == Emit(m, "viewport", callback.viewport_px)
        m2 == IF callback.payload = "CallbackFn"
              THEN InvokeCallback(m1, callback.effect)
              ELSE Warn(m1, "Unsupported render callback")
    IN  prepare_painting(m2, size, pixels_per_point)

\* The Primitive::Callback arm.
paint_callback(m, callback, size, pixels_per_point) ==
    IF callback.is_positive THEN
        LET m1 == Emit(m, "viewport", callback.viewport_px)
            m2 == IF callback.payload = "CallbackFn"
                  THEN InvokeCallback(m1, callback.effect)
                  ELSE Warn(m1, "Unsupported render callback")
        IN  prepare_painting(m2, size, pixels_per_point)
    ELSE m

RECURSIVE PaintLoop(_, _, _, _, _, _)
\* The loop setting the clip rectangle of a primitive after painting it.
PaintLoop_clip_after(m, size, pixels_per_point, prims, debug_assertions, i) ==
    IF m.panic \/ i > Len(prims) THEN m
    ELSE LET p == prims[i]
             m1 == IF p.kind = "Mesh"
                   THEN paint_mesh([m EXCEPT !.at = i], p, debug_assertions)
                   ELSE paint_callback([m EXCEPT !.at = i], p, size, pixels_per_point)
             m2 == IF m1.panic THEN m1
                   ELSE set_clip_rect(m1, size, pixels_per_point, p.clip_rect)
         IN  PaintLoop(m2, size, pixels_per_point, prims, debug_assertions, i + 1)

\* The for loop over clipped_primitives, from the i-th primitive on.
PaintLoop(m, size, pixels_per_point, prims, debug_assertions, i) ==
    IF m.panic \/ i > Len(prims) THEN m
    ELSE LET p == prims[i]
             m1 == set_clip_rect([m EXCEPT !.at = i], size, pixels_per_point, p.clip_rect)
             m2 == IF p.kind = "Mesh"
                   THEN paint_mesh(m1, p, debug_assertions)
                   ELSE paint_callback(m1, p, size, pixels_per_point)
         IN  PaintLoop(m2, size, pixels_per_point, prims, debug_assertions, i + 1)

\* paint_primitives returning right after the loop.
paint_primitives_no_epilogue(m, size, pixels_per_point, prims, debug_assertions) ==
    IF ~assert_not_destroyed(m) THEN Panic(m)
    ELSE
        LET m1 == prepare_painting(m, size, pixels_per_point)
            m2 == PaintLoop(m1, size, pixels_per_point, prims, debug_assertions, 1)
        IN  [m2 EXCEPT !.at = 0]

paint_primitives(m, size, pixels_per_point, prims, debug_assertions) ==
    IF ~assert_not_destroyed(m) THEN Panic(m)
    ELSE
        LET m1 == prepare_painting(m, size, pixels_per_point)
            m2 == PaintLoop(m1, size, pixels_per_point, prims, debug_assertions, 1)
            m3 == [m2 EXCEPT !.at = 0]
            m4 == Emit(m3, "vao.unbind", <<>>)
            m5 == Emit(m4, "bind_buffer(ELEMENT_ARRAY_BUFFER)", <<0>>)
        IN  IF m2.panic THEN m3 ELSE Emit(m5, "disable(SCISSOR_TEST)", <<>>)

---------------------------------------------------------------------------
\* Painter::set_texture and Painter::upload_texture_srgb.  An image delta is
\* [pos, size, pixels, mipmap]: pos is <<>> (None) or <<x, y>>, size is
\* <<w, h>>, pixels is image.pixels.len(), mipmap tells whether
\* options.mipmap_mode is Some.

\* upload_texture_srgb without the assertion on the sides.
upload_texture_srgb_no_side_check(m, pos, size, mipmap, data_len) ==
    IF data_len # size[1] * size[2] * 4 THEN Panic(m)
    ELSE
        LET m1 == Emit(m, "tex_parameter_i32(TEXTURE_MAG_FILTER)", <<>>)
            m2 == Emit(m1, "tex_parameter_i32(TEXTURE_MIN_FILTER)", <<>>)
            m3 == Emit(m2, "tex_parameter_i32(TEXTURE_WRAP_S)", <<>>)
            m4 == Emit(m3, "tex_parameter_i32(TEXTURE_WRAP_T)", <<>>)
            m5 == Emit(m4, "pixel_store_i32(UNPACK_ALIGNMENT)", <<1>>)
            m6 == IF pos # <<>>
                  THEN Emit(m5, "tex_sub_image_2d",
                            <<GlOf(m5).texture_2d, pos[1], pos[2], size[1], size[2]>>)
                  ELSE Emit(m5, "tex_image_2d", <<GlOf(m5).texture_2d, size[1], size[2]>>)
        IN  IF mipmap THEN Emit(m6, "generate_mipmap", <<>>) ELSE m6

upload_texture_srgb(m, pos, size, mipmap, data_len) ==
    IF data_len # size[1] * size[2] * 4 THEN Panic(m)
    ELSE IF ~(size[1] <= MaxTextureSize /\ size[2] <= MaxTextureSize) THEN Panic(m)
    ELSE
        LET m1 == Emit(m, "tex_parameter_i32(TEXTURE_MAG_FILTER)", <<>>)
            m2 == Emit(m1, "tex_parameter_i32(TEXTURE_MIN_FILTER)", <<>>)
            m3 == Emit(m2, "tex_parameter_i32(TEXTURE_WRAP_S)", <<>>)
            m4 == Emit(m3, "tex_parameter_i32(TEXTURE_WRAP_T)", <<>>)
            m5 == Emit(m4, "pixel_store_i32(UNPACK_ALIGNMENT)", <<1>>)
            m6 == IF pos # <<>>
                  THEN Emit(m5, "tex_sub_image_2d",
                            <<GlOf(m5).texture_2d, pos[1], pos[2], size[1], size[2]>>)
                  ELSE Emit(m5, "tex_image_2d", <<GlOf(m5).texture_2d, size[1], size[2]>>)
        IN  IF mipmap THEN Emit(m6, "generate_mipmap", <<>>) ELSE m6

\* set_texture creating a texture on every call, bound or not.
set_texture_always_creates(m, tex_id, delta) ==
    IF ~assert_not_destroyed(m) THEN Panic(m)
    ELSE
        LET m1 == [Emit(m, "create_texture", <<m.nextHandle>>) EXCEPT
                       !.textures = MapInsert(@, tex_id, m.nextHandle),
                       !.nextHandle = @ + 1]
            m2 == Emit(m1, "bind_texture(TEXTURE_2D)", <<m1.textures[tex_id]>>)
        IN  IF delta.size[1] * delta.size[2] # delta.pixels THEN Panic(m2)
            ELSE upload_texture_srgb(m2, delta.pos, delta.size, delta.mipmap,
                                     4 * delta.pixels)

set_texture(m, tex_id, delta) ==
    IF ~assert_not_destroyed(m) THEN Panic(m)
    ELSE
        LET m1 == IF tex_id \in DOMAIN m.textures THEN m
                  ELSE [Emit(m, "create_texture", <<m.nextHandle>>) EXCEPT
                            !.textures = MapInsert(@, tex_id, m.nextHandle),
                            !.nextHandle = @ + 1]
            glow_texture == m1.textures[tex_id]
            m2 == Emit(m1, "bind_texture(TEXTURE_2D)", <<glow_texture>>)
        IN  IF delta.size[1] * delta.size[2] # delta.pixels THEN Panic(m2)
            ELSE upload_texture_srgb(m2, delta.pos, delta.size, delta.mipmap,
                                     4 * delta.pixels)

---------------------------------------------------------------------------
\* Painter::free_texture

\* free_texture deleting the handle and keeping the entry.
free_texture_keeps_entry(m, tex_id) ==
    IF tex_id \in DOMAIN m.textures
    THEN Emit(m, "delete_texture", <<m.textures[tex_id]>>)
    ELSE m

free_texture(m, tex_id) ==
    IF tex_id \in DOMAIN m.textures
    THEN [Emit(m, "delete_texture", <<m.textures[tex_id]>>) EXCEPT
              !.textures = MapRemove(@, tex_id)]
    ELSE m

---------------------------------------------------------------------------
\* Painter::register_native_texture

\* register_native_texture without the increment of the counter.
register_native_texture_no_increment(m, native) ==
    IF ~assert_not_destroyed(m) THEN Panic(m)
    ELSE LET id == User(m.next_native_tex_id)
         IN  [m EXCEPT !.textures = MapInsert(@, id, native), !.ret = id]

register_native_texture(m, native) ==
    IF ~assert_not_destroyed(m) THEN Panic(m)
    ELSE LET id == User(m.next_native_tex_id)
         IN  [m EXCEPT !.next_native_tex_id = U64Inc(@),
                       !.textures = MapInsert(@, id, native),
                       !.ret = id]

---------------------------------------------------------------------------
\* Painter::replace_native_texture

\* replace_native_texture deleting the displaced handle at once.
replace_native_texture_deletes_now(m, id, replacing) ==
    IF id \in DOMAIN m.textures
    THEN [Emit(m, "delete_texture", <<m.textures[id]>>) EXCEPT
              !.textures = MapInsert(@, id, replacing)]
    ELSE [m EXCEPT !.textures = MapInsert(@, id, replacing)]

replace_native_texture(m, id, replacing) ==
    IF id \in DOMAIN m.textures
    THEN [m EXCEPT !.textures = MapInsert(@, id, replacing),
                   !.textures_to_destroy = Append(@, m.textures[id])]
    ELSE [m EXCEPT !.textures = MapInsert(@, id, replacing)]

---------------------------------------------------------------------------
\* Painter::destroy_gl and Painter::destroy

RECURSIVE DeleteTextures(_, _, _)
\* for tex in ts { self.gl.delete_texture(*tex) }, from the i-th on.
DeleteTextures(m, ts, i) ==
    IF i > Len(ts) THEN m
    ELSE DeleteTextures(Emit(m, "delete_texture", <<ts[i]>>), ts, i + 1)

\* order lists the keys of the texture table in the order
\* self.textures.values() visits them.
\* destroy_gl without the loop over textures_to_destroy.
destroy_gl_leaks_deferred(m, order) ==
    LET m1 == Emit(m, "delete_program", <<Program>>)
        m2 == DeleteTextures(m1, [i \in DOMAIN order |-> m.textures[order[i]]], 1)
        m3 == Emit(m2, "delete_buffer", <<Vbo>>)
    IN  Emit(m3, "delete_buffer", <<ElementArrayBuffer>>)

destroy_gl(m, order) ==
    LET m1 == Emit(m, "delete_program", <<Program>>)
        m2 == DeleteTextures(m1, [i \in DOMAIN order |-> m.textures[order[i]]], 1)
        m3 == Emit(m2, "delete_buffer", <<Vbo>>)
        m4 == Emit(m3, "delete_buffer", <<ElementArrayBuffer>>)
    IN  DeleteTextures(m4, m.textures_to_destroy, 1)

destroy(m, order) ==
    IF ~m.destroyed
    THEN [destroy_gl(m, order) EXCEPT !.destroyed = TRUE]
    ELSE m

---------------------------------------------------------------------------
\* impl Drop for Painter

\* drop warning whether or not destroy() was called.
drop_always_warns(m) ==
    Warn(m, "You forgot to call destroy() on the egui glow painter. Resources will leak!")

drop(m) ==
    IF ~m.destroyed
    THEN Warn(m, "You forgot to call destroy() on the egui glow painter. Resources will leak!")
    ELSE m

---------------------------------------------------------------------------
\* Painter::paint_and_update_textures.  A textures delta is [set, free]:
\* set is a sequence of <<id, image delta>>, free is a sequence of ids.

RECURSIVE SetAll(_, _, _)
\* for (id, image_delta) in &textures_delta.set, from the i-th on.
SetAll(m, set, i) ==
    IF m.panic \/ i > Len(set) THEN m
    ELSE SetAll(set_texture(m, set[i][1], set[i][2]), set, i + 1)

RECURSIVE FreeAll(_, _, _)
\* for &id in &textures_delta.free, from the i-th on.
FreeAll(m, free, i) ==
    IF i > Len(free) THEN m
    ELSE FreeAll(free_texture(m, free[i]), free, i + 1)

\* paint_and_update_textures freeing before it paints.
paint_and_update_textures_frees_first(m, size, pixels_per_point, prims, textures_delta, debug_assertions) ==
    LET m1 == SetAll(m, textures_delta.set, 1)
        m2 == IF m1.panic THEN m1 ELSE FreeAll(m1, textures_delta.free, 1)
    IN  IF m2.panic THEN m2
        ELSE paint_primitives(m2, size, pixels_per_point, prims, debug_assertions)

paint_and_update_textures(m, size, pixels_per_point, prims, textures_delta, debug_assertions) ==
    LET m1 == SetAll(m, textures_delta.set, 1)
        m2 == IF m1.panic THEN m1
              ELSE paint_primitives(m1, size, pixels_per_point, prims, debug_assertions)
    IN  IF m2.panic THEN m2 ELSE FreeAll(m2, textures_delta.free, 1)

---------------------------------------------------------------------------
\* The inputs the operations are called with.

\* screen_size_px
ScreenSizes == {<<100, 100>>}

\* pixels_per_point, in tenths
PixelDensities == {20}

\* Clip rectangles, in tenths of a point.
ClipA == [min |-> <<104, 56>>, max |-> <<202, 309>>]
ClipB == [min |-> <<-10, -10>>, max |-> <<2000, 2000>>]

\* Primitive::Mesh
Mesh(clip_rect, texture_id, valid) ==
    [kind |-> "Mesh", clip_rect |-> clip_rect, texture_id |-> texture_id,
     valid |-> valid, is_positive |-> FALSE, viewport_px |-> <<0, 0, 0, 0>>,
     payload |-> "", effect |-> 0]

\* Primitive::Callback
Callback(clip_rect, is_positive, payload, effect) ==
    [kind |-> "Callback", clip_rect |-> clip_rect, texture_id |-> NoId,
     valid |-> TRUE, is_positive |-> is_positive,
     viewport_px |-> <<10, 20, 30, 40>>, payload |-> payload, effect |-> effect]

\* The identifiers meshes refer to.
MeshIds == {Managed(U64Zero), User(NativeIdStart)}

Meshes == {Mesh(ClipA, id, v) : id \in MeshIds, v \in BOOLEAN}

Callbacks ==
    {Callback(ClipB, TRUE, "CallbackFn", 1),
     Callback(ClipB, TRUE, "Other", 0),
     Callback(ClipB, FALSE, "CallbackFn", 1)}

Primitives == Meshes \cup Callbacks

\* The sequences over S of length at most n.
SeqUpTo(S, n) == UNION {[1..k -> S] : k \in 0..n}

\* Image deltas: full and sub-region uploads that satisfy the contract, and
\* ones that break it (pixel count, maximum side).
Delta(pos, size, pixels, mipmap) ==
    [pos |-> pos, size |-> size, pixels |-> pixels, mipmap |-> mipmap]

GoodDeltas ==
    {Delta(<<>>, <<1, 1>>, 1, FALSE),
     Delta(<<>>, <<2, 1>>, 2, TRUE),
     Delta(<<0, 0>>, <<1, 1>>, 1, FALSE)}

BadDeltas ==
    {Delta(<<>>, <<1, 1>>, 2, FALSE),
     Delta(<<0, 0>>, <<2, 1>>, 1, FALSE),
     Delta(<<>>, <<MaxTextureSize + 1, 1>>, MaxTextureSize + 1, FALSE),
     Delta(<<0, 0>>, <<1, MaxTextureSize + 1>>, MaxTextureSize + 1, FALSE)}

Deltas == GoodDeltas \cup BadDeltas

\* The orders in which a HashMap with key set S can be iterated.
Orders(S) ==
    {o \in [1..Cardinality(S) -> S] : \A i, j \in DOMAIN o : o[i] = o[j] => i = j}

---------------------------------------------------------------------------
\* The state after Painter::new returned Ok.

InitWith(srgb) ==
    /\ textures = <<>>
    /\ next_native_tex_id = NativeIdStart
    /\ textures_to_destroy = <<>>
    /\ destroyed = FALSE
    /\ supports_srgb_framebuffer \in srgb
    /\ gl = GlInit
    /\ nextHandle = 1
    /\ calls = 0
    /\ pre = [textures |-> <<>>, next_native_tex_id |-> NativeIdStart,
              textures_to_destroy |-> <<>>, destroyed |-> FALSE, nextHandle |-> 1]
    /\ lastOp = [name |-> "new"]
    /\ outcome = "ok"
    /\ ret = NoId
    /\ glLog = <<>>
    /\ diag = <<>>
    /\ draws = <<>>
    /\ deleted = {}
    /\ redeleted = {}
    /\ allocated = {}
    /\ aliased = FALSE

Init == InitWith(BOOLEAN)

\* The number of entries of log with command cmd.
Count(log, cmd) == Cardinality({k \in DOMAIN log : log[k].cmd = cmd})

\* The number of delete_texture commands for handle h in log.
DeleteCount(log, h) ==
    Cardinality({k \in DOMAIN log :
                    log[k].cmd = "delete_texture" /\ log[k].arg = <<h>>})

\* The call op was handed a texture object the host had passed to the
\* Painter, or the Painter had created, before.
PassedBefore(op) ==
    \/ op.name = "register_native_texture" /\ op.native < nextHandle
    \/ op.name = "replace_native_texture" /\ op.replacing < nextHandle

\* The call op ran from the current state and left the machine m.  No call
\* can be made on a Painter that has been dropped.  The history of the
\* texture objects is left to Recorded and Unrecorded.
Finish(op, m) ==
    /\ lastOp.name # "drop"
    /\ m.nextHandle <= MaxHandle + 1
    /\ Len(m.textures_to_destroy) + (IF op.name = "register_native_texture"
                                     THEN calls + 1 ELSE calls) <= MaxNative
    /\ textures' = m.textures
    /\ next_native_tex_id' = m.next_native_tex_id
    /\ textures_to_destroy' = m.textures_to_destroy
    /\ destroyed' = m.destroyed
    /\ gl' = GlOf(m)
    /\ nextHandle' = m.nextHandle
    /\ calls' = IF op.name = "register_native_texture" THEN calls + 1 ELSE calls
    /\ pre' = [textures |-> textures, next_native_tex_id |-> next_native_tex_id,
               textures_to_destroy |-> textures_to_destroy,
               destroyed |-> destroyed, nextHandle |-> nextHandle]
    /\ lastOp' = op
    /\ outcome' = IF m.panic THEN "panic" ELSE "ok"
    /\ ret' = m.ret
    /\ glLog' = m.log
    /\ diag' = m.diag
    /\ draws' = m.draws
    /\ UNCHANGED supports_srgb_framebuffer

\* The history of the texture objects takes in the call that just ended.
Recorded ==
    /\ deleted' = deleted \cup {h \in Handles : DeleteCount(glLog', h) >= 1}
    /\ redeleted' = redeleted \cup
           {h \in Handles : \/ DeleteCount(glLog', h) >= 2
                            \/ DeleteCount(glLog', h) >= 1 /\ h \in deleted}
    /\ allocated' = allocated \cup
           {h \in Handles : \E k \in DOMAIN glLog' :
                                glLog'[k].cmd = "tex_image_2d" /\ glLog'[k].arg[1] = h}
    /\ aliased' = (aliased \/ PassedBefore(lastOp'))

\* The history of the texture objects is not kept.
Unrecorded == UNCHANGED <<deleted, redeleted, allocated, aliased>>

\* The host passes a texture object it holds: one created earlier, or one it
\* creates now.
HostHandle(m, native) ==
    IF native = m.nextHandle THEN [m EXCEPT !.nextHandle = @ + 1] ELSE m

\* The context states a painting call is entered with.
GlEntryStates == {GlInit, GlTrashed}

SetTexture(ids, deltas) ==
    \E tex_id \in ids, delta \in deltas :
        Finish([name |-> "set_texture", tex_id |-> tex_id, delta |-> delta],
               set_texture(Machine(GlInit), tex_id, delta))

FreeTexture(ids) ==
    \E tex_id \in ids :
        Finish([name |-> "free_texture", tex_id |-> tex_id],
               free_texture(Machine(GlInit), tex_id))

RegisterNativeTexture ==
    /\ \E native \in 1..nextHandle :
        Finish([name |-> "register_native_texture", native |-> native],
               register_native_texture(HostHandle(Machine(GlInit), native), native))

ReplaceNativeTexture(ids) ==
    \E id \in ids, replacing \in 1..nextHandle :
        Finish([name |-> "replace_native_texture", tex_id |-> id,
                replacing |-> replacing],
               replace_native_texture(HostHandle(Machine(GlInit), replacing),
                                      id, replacing))

Destroy ==
    \E order \in Orders(DOMAIN textures) :
        Finish([name |-> "destroy", order |-> order],
               destroy(Machine(GlInit), order))

PaintPrimitives(lists, builds, entries) ==
    \E size \in ScreenSizes, ppp \in PixelDensities, prims \in lists,
       debug_assertions \in builds, g \in entries :
        Finish([name |-> "paint_primitives", size |-> size, ppp |-> ppp,
                prims |-> prims, debug_assertions |-> debug_assertions,
                entry |-> g],
               paint_primitives(Machine(g), size, ppp, prims, debug_assertions))

PaintAndUpdateTextures(lists, sets, frees, builds, entries) ==
    \E size \in ScreenSizes, ppp \in PixelDensities, prims \in lists,
       set \in sets, free \in frees, debug_assertions \in builds, g \in entries :
        Finish([name |-> "paint_and_update_textures", size |-> size, ppp |-> ppp,
                prims |-> prims, set |-> set, free |-> free,
                debug_assertions |-> debug_assertions, entry |-> g],
               paint_and_update_textures(Machine(g), size, ppp, prims,
                                         [set |-> set, free |-> free],
                                         debug_assertions))

\* The Painter goes out of scope.
Drop == Finish([name |-> "drop"], drop(Machine(GlInit)))

\* set_clip_rect, called on its own.
SetClipRect(sizes, densities, rects) ==
    \E size \in sizes, ppp \in densities, clip_rect \in rects :
        Finish([name |-> "set_clip_rect", size |-> size, ppp |-> ppp,
                clip_rect |-> clip_rect],
               set_clip_rect(Machine(GlInit), size, ppp, clip_rect))

---------------------------------------------------------------------------
\* Spec: the life of the texture table, the deferred-delete list, the native
\* identifier counter and the destroyed flag, with frames of one mesh.

FontMesh == Mesh(ClipA, Managed(U64Zero), TRUE)

FullDelta == Delta(<<>>, <<1, 1>>, 1, FALSE)

LifeDeltas ==
    {FullDelta,
     Delta(<<0, 0>>, <<1, 1>>, 1, FALSE),
     Delta(<<>>, <<1, 1>>, 2, FALSE),
     Delta(<<0, 0>>, <<1, MaxTextureSize + 1>>, MaxTextureSize + 1, FALSE)}

LifeFrames == {<<>>, <<FontMesh>>}

LifeSets == {<<>>, <<<<Managed(U64Zero), FullDelta>>>>}

LifeFrees == {<<>>, <<Managed(U64Zero)>>}

Next ==
    \/ /\ SetTexture(TexIds, LifeDeltas)
       /\ Unrecorded
    \/ /\ FreeTexture(TexIds)
       /\ Unrecorded
    \/ /\ RegisterNativeTexture
       /\ Unrecorded
    \/ /\ ReplaceNativeTexture(TexIds)
       /\ Unrecorded
    \/ /\ Destroy
       /\ Unrecorded
    \/ /\ PaintPrimitives(LifeFrames, {FALSE}, {GlInit})
       /\ Unrecorded
    \/ /\ PaintAndUpdateTextures(LifeFrames, LifeSets, LifeFrees, {FALSE}, {GlInit})
       /\ Unrecorded

Spec == InitWith({TRUE}) /\ [][Next]_vars

---------------------------------------------------------------------------
\* SpecPaint: paint_primitives on primitive lists of up to MaxPrims
\* primitives, over the texture tables set_texture and free_texture build.
\* The host paints one frame per round of texture updates.

PaintFrames == SeqUpTo(Primitives, MaxPrims)

NextPaint ==
    \/ /\ SetTexture(MeshIds, {FullDelta})
       /\ Unrecorded
    \/ /\ FreeTexture(MeshIds)
       /\ Unrecorded
    \/ /\ lastOp.name # "paint_primitives"
       /\ PaintPrimitives(PaintFrames, BOOLEAN, GlEntryStates)
       /\ Unrecorded

SpecPaint == Init /\ [][NextPaint]_vars

---------------------------------------------------------------------------
\* SpecFrame: a sequence of paint_and_update_textures calls.

FrameMeshes == {Mesh(ClipA, id, TRUE) : id \in MeshIds}

\* Frames of no, one or two meshes.
FrameLists == SeqUpTo(FrameMeshes, 2)

FrameSets == SeqUpTo({<<id, FullDelta>> : id \in MeshIds}, 2)

FrameFrees == SeqUpTo(MeshIds, 1)

NextFrame ==
    /\ PaintAndUpdateTextures(FrameLists, FrameSets, FrameFrees, {FALSE}, {GlTrashed})
    /\ Unrecorded

SpecFrame == InitWith({TRUE}) /\ [][NextFrame]_vars

---------------------------------------------------------------------------
\* SpecUpload: set_texture with image deltas inside and outside its contract,
\* free_texture, destroy, and the drop of the Painter.

NextUpload ==
    \/ /\ SetTexture(TexIds, Deltas)
       /\ Unrecorded
    \/ /\ FreeTexture(TexIds)
       /\ Unrecorded
    \/ /\ Destroy
       /\ Unrecorded
    \/ /\ Drop
       /\ Unrecorded

SpecUpload == InitWith({TRUE}) /\ [][NextUpload]_vars

---------------------------------------------------------------------------
\* SpecClip: set_clip_rect on clip rectangles inside, across and outside the
\* target, with the corners in either order, at three pixel densities.

\* Coordinates of a clip rectangle, in tenths of a point.
ClipCoords == {-25, 0, 25, 56, 104, 202, 309, 2000}

ClipRects ==
    {[min |-> <<a, b>>, max |-> <<c, d>>] :
        a \in ClipCoords, b \in {-25, 56, 2000}, c \in ClipCoords,
        d \in {0, 25, 309}}

\* screen_size_px
ClipSizes == {<<100, 100>>, <<64, 48>>, <<0, 0>>}

\* pixels_per_point, in tenths
ClipDensities == {10, 15, 20}

NextClip ==
    /\ lastOp.name = "new"
    /\ SetClipRect(ClipSizes, ClipDensities, ClipRects)
    /\ Unrecorded

SpecClip == Init /\ [][NextClip]_vars

---------------------------------------------------------------------------
\* SpecHandles: the life of the texture objects.  Every operation that takes,
\* creates or deletes one, with frames that draw and frames that call back,
\* and the history of the objects kept.

HandleDeltas == {FullDelta, Delta(<<0, 0>>, <<1, 1>>, 1, FALSE)}

HandleFrames ==
    {<<>>, <<FontMesh>>,
     <<Callback(ClipB, TRUE, "CallbackFn", 1), Mesh(ClipA, User(NativeIdStart), TRUE)>>}

NextHandles ==
    \/ /\ SetTexture(TexIds, HandleDeltas)
       /\ Recorded
    \/ /\ FreeTexture(TexIds)
       /\ Recorded
    \/ /\ RegisterNativeTexture
       /\ Recorded
    \/ /\ ReplaceNativeTexture(TexIds)
       /\ Recorded
    \/ /\ Destroy
       /\ Recorded
    \/ /\ PaintPrimitives(HandleFrames, {FALSE}, {GlInit})
       /\ Recorded

SpecHandles == InitWith({TRUE}) /\ [][NextHandles]_vars

---------------------------------------------------------------------------
\* SpecAlloc: set_texture and free_texture, with the history of the texture
\* objects kept.

NextAlloc ==
    \/ /\ SetTexture(TexIds, Deltas)
       /\ Recorded
    \/ /\ FreeTexture(TexIds)
       /\ Recorded

SpecAlloc == InitWith({TRUE}) /\ [][NextAlloc]_vars

---------------------------------------------------------------------------
\* SpecBook: paint_primitives over every state of the Painter's bookkeeping:
\* tables with created and with host textures, a deferred-delete list with
\* entries, a counter that has moved, a Painter that has been destroyed.
\* The host paints one frame per round of updates.

\* Frames of no or one primitive of any kind, and one of a callback and a mesh.
BookFrames ==
    SeqUpTo(Primitives, 1) \cup {<<Callback(ClipB, TRUE, "CallbackFn", 1), FontMesh>>}

NextBook ==
    \/ /\ SetTexture(TexIds, {FullDelta})
       /\ Unrecorded
    \/ /\ RegisterNativeTexture
       /\ Unrecorded
    \/ /\ ReplaceNativeTexture(TexIds)
       /\ Unrecorded
    \/ /\ Destroy
       /\ Unrecorded
    \/ /\ lastOp.name # "paint_primitives"
       /\ PaintPrimitives(BookFrames, BOOLEAN, {GlInit})
       /\ Unrecorded

SpecBook == InitWith({TRUE}) /\ [][NextBook]_vars

---------------------------------------------------------------------------
\* What the properties below read off a call.

\* The entries a call issued while it was at primitive i.
Seg(log, i) == SelectSeq(log, LAMBDA e : e.at = i)

\* The commands of a log, without arguments.
CmdsOf(log) == [k \in DOMAIN log |-> log[k].cmd]

\* A log without the indices of the primitives.
StripAt(log) == [k \in DOMAIN log |-> [cmd |-> log[k].cmd, arg |-> log[k].arg]]

\* A diagnostics list without the indices of the primitives.
Msgs(d) == [k \in DOMAIN d |-> d[k].msg]

\* The handles a texture table holds.
HandlesOf(table) == {table[id] : id \in DOMAIN table}

\* The Painter's own fields are as they were when the call began.
PainterUnchanged ==
    /\ textures = pre.textures
    /\ next_native_tex_id = pre.next_native_tex_id
    /\ textures_to_destroy = pre.textures_to_destroy
    /\ destroyed = pre.destroyed

\* The loop of the last paint call got to primitive i.
Reached(i) == \E k \in DOMAIN glLog : glLog[k].at = i

\* The index of the last entry of the last call's log issued at primitive i.
LastAt(i) ==
    CHOOSE k \in DOMAIN glLog :
        glLog[k].at = i /\ \A j \in DOMAIN glLog : glLog[j].at = i => j <= k

\* The fixed state prepare_painting sets up for a target of the given size.
FixedState(g, size, ppp) ==
    /\ g.viewport = <<0, 0, size[1], size[2]>>
    /\ g.scissor_test /\ ~g.cull_face /\ ~g.depth_test
    /\ g.color_mask /\ g.blend
    /\ g.blend_equation = "FUNC_ADD"
    /\ g.blend_func = "ONE,ONE_MINUS_SRC_ALPHA,ONE_MINUS_DST_ALPHA,ONE"
    /\ g.program = Program
    /\ g.u_screen_size = <<size[1], size[2], ppp>>
    /\ g.u_sampler = 0 /\ g.active_texture = 0
    /\ g.vao /\ g.element_array_buffer = ElementArrayBuffer

\* The sequence s without its i-th element.
Without(s, i) == [k \in 1..(Len(s) - 1) |-> IF k < i THEN s[k] ELSE s[k + 1]]

MutatingOps ==
    {"set_texture", "free_texture", "paint_primitives",
     "paint_and_update_textures", "register_native_texture",
     "replace_native_texture"}

---------------------------------------------------------------------------
\* C1: once destroy() has been called, every mutating operation (set_texture,
\* free_texture, paint_primitives, paint_and_update_textures,
\* register_native_texture, replace_native_texture) is rejected by an
\* assertion failure and not executed.  free_texture and
\* replace_native_texture do not call assert_not_destroyed: they run.
C1_MutationAfterDestroyRejected ==
    (pre.destroyed /\ lastOp.name \in MutatingOps) =>
        (outcome = "panic" /\ glLog = <<>> /\ PainterUnchanged)

---------------------------------------------------------------------------
\* C2: the first destroy() on a live Painter deletes the program, every
\* handle of the texture table, the vertex buffer, the index buffer and every
\* handle of the deferred-delete list (one delete command for each, and no
\* other command) and sets destroyed; a later destroy() issues no command and
\* changes nothing; no operation clears destroyed.
C2_DestroyOnce ==
    /\ pre.destroyed => destroyed
    /\ lastOp.name = "destroy" =>
        IF pre.destroyed
        THEN glLog = <<>> /\ PainterUnchanged /\ outcome = "ok"
        ELSE /\ destroyed /\ outcome = "ok"
             /\ Cardinality({k \in DOMAIN glLog : glLog[k].cmd = "delete_program"
                                                   /\ glLog[k].arg = <<Program>>}) = 1
             /\ \A b \in {Vbo, ElementArrayBuffer} :
                    Cardinality({k \in DOMAIN glLog : glLog[k].cmd = "delete_buffer"
                                                       /\ glLog[k].arg = <<b>>}) = 1
             /\ \A h \in Handles :
                    DeleteCount(glLog, h) =
                        Cardinality({id \in DOMAIN pre.textures : pre.textures[id] = h})
                        + Cardinality({k \in DOMAIN pre.textures_to_destroy :
                                          pre.textures_to_destroy[k] = h})
             /\ Len(glLog) = 3 + Cardinality(DOMAIN pre.textures)
                               + Len(pre.textures_to_destroy)

\* A first destroy() with a bound texture and a deferred handle.
C2_Witness ==
    /\ lastOp.name = "destroy" /\ ~pre.destroyed /\ destroyed
    /\ pre.textures # <<>> /\ pre.textures_to_destroy # <<>>

---------------------------------------------------------------------------
\* C3: on a live Painter, set_texture(id, delta) with id not in the texture
\* table creates exactly one texture and binds id to it; with id in the table
\* it creates none and the table keeps the handle; with an offset in the
\* delta it issues no tex_image_2d (no reallocation), and, when the call
\* returns, exactly one tex_sub_image_2d, on the handle of id.
C3_SetTextureUpsert ==
    (lastOp.name = "set_texture" /\ ~pre.destroyed) =>
        LET id == lastOp.tex_id IN
        /\ IF id \notin DOMAIN pre.textures
           THEN /\ Count(glLog, "create_texture") = 1
                /\ nextHandle = pre.nextHandle + 1
                /\ textures = MapInsert(pre.textures, id, pre.nextHandle)
                /\ \E k \in DOMAIN glLog : /\ glLog[k].cmd = "create_texture"
                                          /\ glLog[k].arg = <<textures[id]>>
           ELSE /\ Count(glLog, "create_texture") = 0
                /\ nextHandle = pre.nextHandle
                /\ textures = pre.textures
        /\ lastOp.delta.pos # <<>> =>
               /\ Count(glLog, "tex_image_2d") = 0
               /\ outcome = "ok" =>
                      /\ Count(glLog, "tex_sub_image_2d") = 1
                      /\ \A k \in DOMAIN glLog :
                             glLog[k].cmd = "tex_sub_image_2d" =>
                                 glLog[k].arg[1] = textures[id]

\* A sub-region update of a texture that is already in the table.
C3_Witness ==
    /\ lastOp.name = "set_texture" /\ outcome = "ok"
    /\ lastOp.tex_id \in DOMAIN pre.textures
    /\ lastOp.delta.pos # <<>>
    /\ Count(glLog, "tex_sub_image_2d") = 1

---------------------------------------------------------------------------
\* C4: free_texture(id) with id in the texture table removes the entry and
\* issues one delete_texture, for its handle; with id not in the table it
\* issues no command and leaves the table as it is.
C4_FreeTexture ==
    lastOp.name = "free_texture" =>
        LET id == lastOp.tex_id IN
        /\ IF id \in DOMAIN pre.textures
           THEN /\ textures = MapRemove(pre.textures, id)
                /\ StripAt(glLog) =
                       <<[cmd |-> "delete_texture", arg |-> <<pre.textures[id]>>]>>
           ELSE /\ textures = pre.textures
                /\ glLog = <<>>
        /\ textures_to_destroy = pre.textures_to_destroy
        /\ next_native_tex_id = pre.next_native_tex_id

\* A free of a bound identifier.
C4_Witness ==
    /\ lastOp.name = "free_texture"
    /\ lastOp.tex_id \in DOMAIN pre.textures
    /\ lastOp.tex_id \notin DOMAIN textures
    /\ Len(glLog) = 1

---------------------------------------------------------------------------
\* C5: replace_native_texture(id, new) binds id to new and, when id was
\* bound, appends the displaced handle to the deferred-delete list without
\* deleting it.
C5_ReplaceDefers ==
    lastOp.name = "replace_native_texture" =>
        LET id == lastOp.tex_id IN
        /\ textures = MapInsert(pre.textures, id, lastOp.replacing)
        /\ textures_to_destroy =
               IF id \in DOMAIN pre.textures
               THEN Append(pre.textures_to_destroy, pre.textures[id])
               ELSE pre.textures_to_destroy
        /\ Count(glLog, "delete_texture") = 0

---------------------------------------------------------------------------
\* C10: the k-th call of register_native_texture, when it returns, returns
\* User(2^32 + k - 1), whatever calls come between; the identifier is not
\* below 2^32 and below the next one to be handed out.
C10_NativeIds ==
    (lastOp.name = "register_native_texture" /\ outcome = "ok") =>
        /\ ret = User(U64Plus(NativeIdStart, calls - 1))
        /\ ~U64Less(ret.n, NativeIdStart)
        /\ U64Less(ret.n, next_native_tex_id)

\* The second registration returned User(2^32 + 1).
C10_Witness ==
    /\ lastOp.name = "register_native_texture" /\ outcome = "ok"
    /\ calls = 2
    /\ ret = User(<<0, 1, 0, 1>>)

---------------------------------------------------------------------------
\* The last call is a paint_primitives call on a live Painter.
Painted == lastOp.name = "paint_primitives" /\ ~pre.destroyed

\* The indices of the last paint call's primitive list.
PrimIdx == IF lastOp.name = "paint_primitives" THEN DOMAIN lastOp.prims ELSE {}

\* Entry e of a log or of a diagnostics list, renumbered for the list
\* without primitive i.
ShiftAt(e, i) == [e EXCEPT !.at = IF @ > i THEN @ - 1 ELSE @]

\* A log or a diagnostics list without what primitive i added, renumbered.
Except(log, i) ==
    LET rest == SelectSeq(log, LAMBDA e : e.at # i)
    IN  [k \in DOMAIN rest |-> ShiftAt(rest[k], i)]

\* The paint call of lastOp, run again from the current state (paint
\* leaves the Painter as it was) on the list without primitive i.
PaintWithout(i) ==
    paint_primitives(Machine(lastOp.entry), lastOp.size, lastOp.ppp,
                     Without(lastOp.prims, i), lastOp.debug_assertions)

\* Primitive i of the last paint call is a mesh whose texture is not in the
\* table and that got to the lookup of its texture.
MissingTexture(i) ==
    /\ lastOp.prims[i].kind = "Mesh"
    /\ lastOp.prims[i].texture_id \notin DOMAIN pre.textures
    /\ Reached(i)
    /\ lastOp.prims[i].valid \/ ~lastOp.debug_assertions

\* C7: in paint_primitives, a mesh whose texture identifier is not in the
\* texture table, and that gets to the lookup, issues no draw call (only its
\* scissor rectangle is set) and exactly one diagnostic, and everything else
\* of the call (commands, diagnostics, draw calls and the context state they
\* are issued in, outcome, and the final context when a primitive follows) is
\* what the call on the list without that mesh does.
C7_MissingTextureMesh ==
    Painted =>
        \A i \in PrimIdx :
            MissingTexture(i) =>
                LET R == PaintWithout(i) IN
                /\ CmdsOf(Seg(glLog, i)) = <<"scissor">>
                /\ Msgs(SelectSeq(diag, LAMBDA d : d.at = i))
                       = <<"Failed to find texture">>
                /\ Except(glLog, i) = R.log
                /\ Except(diag, i) = R.diag
                /\ draws = R.draws
                /\ (outcome = "panic") = R.panic
                /\ i < Len(lastOp.prims) => gl = GlOf(R)

\* A mesh without texture followed by a mesh that is drawn.
C7_Witness ==
    /\ Painted /\ outcome = "ok"
    /\ Len(lastOp.prims) = 2
    /\ MissingTexture(1)
    /\ lastOp.prims[2].kind = "Mesh"
    /\ lastOp.prims[2].texture_id \in DOMAIN textures
    /\ Len(diag) = 1 /\ Len(draws) = 1

---------------------------------------------------------------------------
\* Primitive i of the last paint call is a callback with a rectangle of
\* positive area that the loop got to.
PositiveCallback(i) ==
    /\ lastOp.prims[i].kind = "Callback"
    /\ lastOp.prims[i].is_positive
    /\ Reached(i)

\* C8: in paint_primitives, a callback with a positive-area rectangle is
\* invoked once when its payload is a CallbackFn, and is not invoked and
\* yields one diagnostic otherwise; in both cases the context is in the fixed
\* state of prepare_painting after the last command issued for it, the next
\* primitive is processed after that, and every draw call of the paint call
\* is issued in the fixed state.
C8_CallbackRestore ==
    Painted =>
        /\ \A i \in PrimIdx :
            PositiveCallback(i) =>
                LET isFn == lastOp.prims[i].payload = "CallbackFn"
                    warned == SelectSeq(diag, LAMBDA d : d.at = i)
                IN
                /\ Count(Seg(glLog, i), "callback.f") = IF isFn THEN 1 ELSE 0
                /\ Msgs(warned) = IF isFn THEN <<>>
                                  ELSE <<"Unsupported render callback">>
                /\ FixedState(Replay(lastOp.entry, glLog, LastAt(i)),
                              lastOp.size, lastOp.ppp)
                /\ i < Len(lastOp.prims) =>
                       /\ Reached(i + 1)
                       /\ \A k \in DOMAIN glLog :
                              glLog[k].at = i + 1 => k > LastAt(i)
        /\ \A k \in DOMAIN draws : FixedState(draws[k], lastOp.size, lastOp.ppp)

\* A callback that left nothing of the fixed state, then a mesh that is drawn.
C8_Witness ==
    /\ Painted /\ outcome = "ok"
    /\ Len(lastOp.prims) = 2
    /\ PositiveCallback(1)
    /\ lastOp.prims[1].payload = "CallbackFn" /\ lastOp.prims[1].effect = 1
    /\ Count(Seg(glLog, 1), "callback.f") = 1
    /\ lastOp.prims[2].kind = "Mesh"
    /\ Len(draws) = 1

---------------------------------------------------------------------------
\* Primitive i of the last paint call is a callback with a rectangle of
\* non-positive area that the loop got to.
SkippedCallback(i) ==
    /\ lastOp.prims[i].kind = "Callback"
    /\ ~lastOp.prims[i].is_positive
    /\ Reached(i)

\* C9: in paint_primitives, a callback whose rectangle has non-positive area
\* is skipped: only its scissor rectangle is set (the callback is not
\* invoked, no viewport command is issued and the viewport stays what it
\* was), no diagnostic is logged, and the call goes on with the next
\* primitive, or returns when there is none.
C9_NonPositiveCallbackSkipped ==
    Painted =>
        \A i \in PrimIdx :
            SkippedCallback(i) =>
                /\ CmdsOf(Seg(glLog, i)) = <<"scissor">>
                /\ Replay(lastOp.entry, glLog, LastAt(i)).viewport
                       = <<0, 0, lastOp.size[1], lastOp.size[2]>>
                /\ SelectSeq(diag, LAMBDA d : d.at = i) = <<>>
                /\ i < Len(lastOp.prims) => Reached(i + 1)
                /\ i = Len(lastOp.prims) => outcome = "ok"

\* A skipped callback followed by a mesh that is drawn.
C9_Witness ==
    /\ Painted /\ outcome = "ok"
    /\ Len(lastOp.prims) = 2
    /\ SkippedCallback(1)
    /\ lastOp.prims[1].payload = "CallbackFn"
    /\ lastOp.prims[2].kind = "Mesh"
    /\ Len(draws) = 1

---------------------------------------------------------------------------
\* The identifiers of a textures delta's set.
SetIds(set) == {set[k][1] : k \in DOMAIN set}

\* The index of the first entry of the last call's log with command cmd.
FirstIdx(cmd) ==
    CHOOSE k \in DOMAIN glLog :
        glLog[k].cmd = cmd /\ \A j \in DOMAIN glLog : glLog[j].cmd = cmd => k <= j

\* The index of the last entry of the last call's log with command cmd.
LastIdx(cmd) ==
    CHOOSE k \in DOMAIN glLog :
        glLog[k].cmd = cmd /\ \A j \in DOMAIN glLog : glLog[j].cmd = cmd => j <= k

\* C6: a paint_and_update_textures call that returns has issued every
\* command of its upserts (texture creation, image upload) before the first
\* command of painting and every texture deletion of its frees after the last
\* command of painting, with all draw calls in between; every mesh whose
\* texture is in the table before the call or in the set of the delta is
\* drawn once, with the handle of its identifier, also when the identifier is
\* in the free list; after the call the table holds the identifiers it held
\* or that were set, without those of the free list.
C6_SetPaintFree ==
    (lastOp.name = "paint_and_update_textures" /\ outcome = "ok") =>
        LET set == lastOp.set
            free == Range(lastOp.free)
            live == DOMAIN pre.textures \cup SetIds(set)
            begin == FirstIdx("enable(SCISSOR_TEST)")
            end == LastIdx("disable(SCISSOR_TEST)")
        IN
        /\ Count(glLog, "enable(SCISSOR_TEST)") >= 1
        /\ Count(glLog, "disable(SCISSOR_TEST)") = 1
        /\ \A k \in DOMAIN glLog :
               /\ glLog[k].cmd \in {"create_texture", "tex_image_2d",
                                    "tex_sub_image_2d"} => k < begin
               /\ glLog[k].cmd = "delete_texture" => k > end
               /\ glLog[k].cmd = "draw_elements" => begin < k /\ k < end
        /\ Count(glLog, "tex_image_2d") + Count(glLog, "tex_sub_image_2d")
               = Len(set)
        /\ Count(glLog, "create_texture")
               = Cardinality(SetIds(set) \ DOMAIN pre.textures)
        /\ Count(glLog, "delete_texture") = Cardinality(free \cap live)
        /\ \A i \in DOMAIN lastOp.prims :
               LET id == lastOp.prims[i].texture_id
                   seg == Seg(glLog, i)
               IN  lastOp.prims[i].kind = "Mesh" =>
                       IF id \in live
                       THEN /\ Count(seg, "draw_elements") = 1
                            /\ \E k \in DOMAIN seg :
                                   /\ seg[k].cmd = "bind_texture(TEXTURE_2D)"
                                   /\ \/ /\ id \in DOMAIN pre.textures
                                         /\ seg[k].arg = <<pre.textures[id]>>
                                      \/ /\ id \notin DOMAIN pre.textures
                                         /\ seg[k].arg[1] >= pre.nextHandle
                                         /\ id \notin free =>
                                                seg[k].arg = <<textures[id]>>
                       ELSE Count(seg, "draw_elements") = 0
        /\ DOMAIN textures = live \ free
        /\ \A id \in DOMAIN textures \cap DOMAIN pre.textures :
               textures[id] = pre.textures[id]

\* A frame that sets a texture the table did not hold, draws a mesh with it
\* and frees it.
C6_Witness ==
    /\ lastOp.name = "paint_and_update_textures" /\ outcome = "ok"
    /\ \E i \in DOMAIN lastOp.prims :
           LET id == lastOp.prims[i].texture_id IN
           /\ id \notin DOMAIN pre.textures
           /\ id \in SetIds(lastOp.set)
           /\ id \in Range(lastOp.free)
           /\ Count(Seg(glLog, i), "draw_elements") = 1
           /\ id \notin DOMAIN textures
    /\ Count(glLog, "delete_texture") = 1

---------------------------------------------------------------------------
\* The last call is set_clip_rect and it issued the scissor command.
Clipped ==
    /\ lastOp.name = "set_clip_rect"
    /\ CmdsOf(glLog) = <<"scissor">>

\* C11: the scissor rectangle set_clip_rect applies lies in the target: its
\* offsets, width and height are not negative, x-offset + width is at most
\* the target's width and y-offset + height at most its height.
C11_ScissorInTarget ==
    lastOp.name = "set_clip_rect" =>
        /\ Clipped
        /\ LET r == glLog[1].arg
               W == lastOp.size[1]
               H == lastOp.size[2]
           IN  /\ r[1] >= 0 /\ r[2] >= 0 /\ r[3] >= 0 /\ r[4] >= 0
               /\ r[1] + r[3] <= W
               /\ r[2] + r[4] <= H
               /\ gl.scissor = r

\* A clip rectangle with its corners in the wrong order, across the target.
C11_Witness ==
    /\ Clipped
    /\ lastOp.clip_rect.min[1] > lastOp.clip_rect.max[1]
    /\ lastOp.clip_rect.min[2] < 0
    /\ lastOp.clip_rect.max[2] * lastOp.ppp > 100 * lastOp.size[2]
    /\ lastOp.size[1] > 0
    /\ glLog[1].arg[3] = 0

---------------------------------------------------------------------------
\* r is the integer nearest to n hundredths, ties away from zero.
Nearest(n, r) ==
    /\ 100 * r - 50 <= n /\ n <= 100 * r + 50
    /\ n = 100 * r - 50 => r > 0
    /\ n = 100 * r + 50 => r < 0

\* c is v brought into lo..hi.
ClampedTo(v, lo, hi, c) ==
    /\ lo <= c /\ c <= hi
    /\ (lo <= v /\ v <= hi) => c = v
    /\ v < lo => c = lo
    /\ v > hi => c = hi

\* The integers the rounded coordinates of SpecClip's calls lie in.
Rounded == -60..410

\* C12: set_clip_rect scales the four coordinates by the density, rounds
\* each to the nearest integer, clamps min-x to [0, W], min-y to [0, H],
\* max-x to [min-x, W] and max-y to [min-y, H], and applies the scissor
\* (min_x, H - max_y, max_x - min_x, max_y - min_y); for the clip rectangle
\* (10.4, 5.6)-(20.2, 30.9), density 2.0 and target 100 x 100 that is
\* (21, 38, 19, 51).
C12_ScissorComputation ==
    lastOp.name = "set_clip_rect" =>
        /\ Clipped
        /\ LET r == glLog[1].arg
               W == lastOp.size[1]
               H == lastOp.size[2]
               c == lastOp.clip_rect
               d == lastOp.ppp
               min_x == r[1]
               max_x == r[1] + r[3]
               max_y == H - r[2]
               min_y == max_y - r[4]
           IN  /\ \E a \in Rounded : /\ Nearest(d * c.min[1], a)
                                     /\ ClampedTo(a, 0, W, min_x)
               /\ \E a \in Rounded : /\ Nearest(d * c.min[2], a)
                                     /\ ClampedTo(a, 0, H, min_y)
               /\ \E a \in Rounded : /\ Nearest(d * c.max[1], a)
                                     /\ ClampedTo(a, min_x, W, max_x)
               /\ \E a \in Rounded : /\ Nearest(d * c.max[2], a)
                                     /\ ClampedTo(a, min_y, H, max_y)
               /\ (c = ClipA /\ d = 20 /\ lastOp.size = <<100, 100>>) =>
                      r = <<21, 38, 19, 51>>

\* The call of the example.
C12_Witness ==
    /\ Clipped
    /\ lastOp.clip_rect = [min |-> <<104, 56>>, max |-> <<202, 309>>]
    /\ lastOp.ppp = 20
    /\ lastOp.size = <<100, 100>>
    /\ glLog[1].arg = <<21, 38, 19, 51>>

---------------------------------------------------------------------------
\* The delta of the last set_texture call breaks the contract: its pixel
\* buffer is not width * height * 4 bytes long, or a side is above the
\* maximum texture side.
OutOfContract ==
    LET d == lastOp.delta IN
    \/ 4 * d.pixels # d.size[1] * d.size[2] * 4
    \/ d.size[1] > MaxTextureSize
    \/ d.size[2] > MaxTextureSize

\* The pixel uploads of the last call.
Uploads ==
    {k \in DOMAIN glLog : glLog[k].cmd \in {"tex_image_2d", "tex_sub_image_2d"}}

\* C13: set_texture with a delta (full or sub-region) whose pixel buffer is
\* not width * height * 4 bytes long, or whose width or height is above the
\* maximum texture side, panics and has uploaded no pixel data; a delta that
\* keeps the contract, on a live Painter, is uploaded once.
C13_SetTextureAsserts ==
    lastOp.name = "set_texture" =>
        /\ OutOfContract => (outcome = "panic" /\ Uploads = {})
        /\ (~OutOfContract /\ ~pre.destroyed) =>
               (outcome = "ok" /\ Cardinality(Uploads) = 1)

\* A sub-region delta with the right pixel count and a side above the
\* maximum, on a live Painter.
C13_Witness ==
    /\ lastOp.name = "set_texture" /\ ~pre.destroyed
    /\ lastOp.delta.pos # <<>>
    /\ lastOp.delta.pixels = lastOp.delta.size[1] * lastOp.delta.size[2]
    /\ lastOp.delta.size[2] > MaxTextureSize
    /\ outcome = "panic"

---------------------------------------------------------------------------
\* Primitive i of the last paint call is a mesh that fails validation and
\* that the loop got to.
InvalidMesh(i) ==
    /\ lastOp.prims[i].kind = "Mesh"
    /\ ~lastOp.prims[i].valid
    /\ Reached(i)

\* The paint call of lastOp, run again from the current state on the list
\* with primitive i made valid.
PaintValid(i) ==
    paint_primitives(Machine(lastOp.entry), lastOp.size, lastOp.ppp,
                     [lastOp.prims EXCEPT ![i].valid = TRUE],
                     lastOp.debug_assertions)

\* C14, as stated: in paint_primitives a mesh that fails validation issues
\* no draw call and the call runs to completion.  paint_mesh only has
\* debug_assert!(mesh.is_valid()): the call panics there in a build with
\* debug assertions and draws the mesh in a build without.
C14_InvalidMeshSkipped ==
    Painted =>
        \A i \in PrimIdx :
            InvalidMesh(i) =>
                /\ Count(Seg(glLog, i), "draw_elements") = 0
                /\ outcome = "ok"

\* C14, amended: in paint_primitives a mesh that fails validation is not
\* skipped.  In a build with debug assertions the call panics at that mesh:
\* its scissor rectangle is the last command issued, no later primitive is
\* painted and the state of the end of painting is not set.  In a build
\* without, the mesh is painted as a valid mesh is (drawn once when its
\* texture is in the table) and the call returns.
C14_InvalidMeshAssertedOrDrawn ==
    Painted =>
        \A i \in PrimIdx :
            InvalidMesh(i) =>
                IF lastOp.debug_assertions
                THEN /\ outcome = "panic"
                     /\ CmdsOf(Seg(glLog, i)) = <<"scissor">>
                     /\ glLog[Len(glLog)].at = i
                     /\ \A j \in PrimIdx : j > i => ~Reached(j)
                     /\ Len(draws) < i
                ELSE LET R == PaintValid(i) IN
                     /\ outcome = "ok"
                     /\ Count(Seg(glLog, i), "draw_elements")
                            = IF lastOp.prims[i].texture_id \in DOMAIN textures
                              THEN 1 ELSE 0
                     /\ glLog = R.log /\ diag = R.diag /\ draws = R.draws
                     /\ glLog[Len(glLog)].cmd = "disable(SCISSOR_TEST)"

\* A build without debug assertions drew a mesh that fails validation.
C14_Witness ==
    /\ Painted /\ outcome = "ok" /\ ~lastOp.debug_assertions
    /\ Len(lastOp.prims) = 2
    /\ InvalidMesh(1)
    /\ Count(Seg(glLog, 1), "draw_elements") = 1
    /\ Reached(2)

---------------------------------------------------------------------------
\* C15: the drop of a Painter that is live logs exactly one warning, the
\* resource-leak one, does not panic and issues no GL command (so deletes
\* nothing); the drop of a destroyed Painter logs nothing.
C15_DropWarns ==
    lastOp.name = "drop" =>
        /\ outcome = "ok"
        /\ glLog = <<>>
        /\ PainterUnchanged
        /\ Msgs(diag) =
               IF pre.destroyed THEN <<>>
               ELSE <<"You forgot to call destroy() on the egui glow painter. Resources will leak!">>

\* The drop of a live Painter that holds a texture.
C15_Witness ==
    /\ lastOp.name = "drop"
    /\ ~pre.destroyed
    /\ pre.textures # <<>>
    /\ Len(diag) = 1

---------------------------------------------------------------------------
\* The last call is a paint_primitives call that returned.
PaintReturned == Painted /\ outcome = "ok"

\* C16: when paint_primitives returns, the scissor test is enabled, face
\* culling is disabled and blending is enabled (as the doc comment of
\* paint_primitives says).  The last command of paint_primitives is
\* disable(SCISSOR_TEST).
C16_FeaturesAfterPaint ==
    PaintReturned =>
        /\ gl.scissor_test
        /\ ~gl.cull_face
        /\ gl.blend

---------------------------------------------------------------------------
\* C17: when paint_primitives returns, the vertex buffer, the element buffer,
\* the 2D texture and the shader program are unset and the active texture
\* unit is 0 (as the doc comment of paint_primitives says).  Only the element
\* buffer is unbound; the program stays in use, and after a mesh the vertex
\* buffer and its texture stay bound.
C17_ObjectsUnsetAfterPaint ==
    PaintReturned =>
        /\ gl.array_buffer = 0
        /\ gl.element_array_buffer = 0
        /\ gl.texture_2d = 0
        /\ gl.program = 0
        /\ gl.active_texture = 0

---------------------------------------------------------------------------
---------------------------------------------------------------------------
\* The meshes of the last paint call whose texture is in the texture table.
Textured ==
    {i \in PrimIdx : /\ lastOp.prims[i].kind = "Mesh"
                     /\ lastOp.prims[i].texture_id \in DOMAIN pre.textures}

\* The indices in the last call's log of the commands that paint: a draw
\* call or the invocation of a callback.
PaintCmds ==
    {k \in DOMAIN glLog : glLog[k].cmd \in {"draw_elements", "callback.f"}}

\* C19: paint_primitives goes through the primitives in list order.  The
\* fixed state is set before the first primitive; the primitives painted are
\* a prefix of the list, all of it when the call returns; the commands of a
\* primitive follow those of the primitive before it; the first command of a
\* primitive is the scissor of its own clip rectangle, so it comes before
\* its draw call or callback invocation and after the previous one; and a
\* call that returns has issued as many draw calls as the list has meshes
\* whose texture is in the table, one for each.
C19_PaintOrder ==
    Painted =>
        /\ \A i \in PrimIdx :
               Reached(i) =>
                   LET seg == Seg(glLog, i)
                       first == CHOOSE k \in DOMAIN glLog :
                                   /\ glLog[k].at = i
                                   /\ \A j \in DOMAIN glLog :
                                          glLog[j].at = i => k <= j
                   IN  /\ seg[1].cmd = "scissor"
                       /\ seg[1].arg = ScissorOf(lastOp.size, lastOp.ppp,
                                                 lastOp.prims[i].clip_rect)
                       /\ Count(seg, "scissor") = 1
                       /\ i = 1 => FixedState(Replay(lastOp.entry, glLog, first - 1),
                                              lastOp.size, lastOp.ppp)
                       /\ i > 1 => Reached(i - 1) /\ first = LastAt(i - 1) + 1
                       /\ \A k \in PaintCmds :
                              /\ glLog[k].at < i => k < first
                              /\ glLog[k].at = i => k > first
        /\ \A k \in PaintCmds : glLog[k].at \in PrimIdx
        /\ Count(glLog, "draw_elements") = Len(draws)
        /\ \A i \in PrimIdx :
               Count(Seg(glLog, i), "draw_elements")
                   <= IF i \in Textured THEN 1 ELSE 0
        /\ outcome = "ok" =>
               /\ \A i \in PrimIdx : Reached(i)
               /\ Count(glLog, "draw_elements") = Cardinality(Textured)

\* Two meshes that are drawn, with two textures.
C19_Witness ==
    /\ PaintReturned
    /\ Len(lastOp.prims) = 2
    /\ Cardinality(Textured) = 2
    /\ lastOp.prims[1].texture_id # lastOp.prims[2].texture_id
    /\ Len(draws) = 2

---------------------------------------------------------------------------
\* C20: a set_texture call on a live Painter that is rejected for its delta
\* (pixel buffer length, or a side above the maximum texture side) leaves
\* the Painter as it was: no texture has been created and the texture table
\* has no new entry.  set_texture creates the texture and inserts the entry
\* before it looks at the delta.
C20_RejectedSetTextureNoChange ==
    (lastOp.name = "set_texture" /\ ~pre.destroyed /\ OutOfContract) =>
        /\ outcome = "panic"
        /\ Count(glLog, "create_texture") = 0
        /\ nextHandle = pre.nextHandle
        /\ DOMAIN textures = DOMAIN pre.textures
        /\ PainterUnchanged

---------------------------------------------------------------------------
\* C21: the identifier register_native_texture returns is fresh: it is not a
\* key of the texture table when the call is made, whatever set_texture,
\* free_texture, replace_native_texture and register_native_texture calls
\* came before, so the registration displaces no handle the table holds.
\* register_native_texture takes User(next_native_tex_id) without looking at
\* the table; set_texture and replace_native_texture accept any identifier,
\* also one of the native range that has not been handed out yet.
C21_RegisteredIdFresh ==
    (lastOp.name = "register_native_texture" /\ outcome = "ok") =>
        /\ ret \notin DOMAIN pre.textures
        /\ \A id \in DOMAIN pre.textures : textures[id] = pre.textures[id]

---------------------------------------------------------------------------
\* C22: over any sequence of set_texture, free_texture,
\* register_native_texture, replace_native_texture, paint and destroy calls
\* in which every handle the host supplies is distinct from all handles seen
\* before, the Painter issues at most one delete command for any texture
\* handle.  destroy() deletes the handles of the texture table and leaves
\* them in the table, and free_texture runs on a destroyed Painter: it
\* deletes the handle again.
C22_AtMostOneDelete == ~aliased => redeleted = {}

---------------------------------------------------------------------------
\* C23: no texture handle is leaked: in every state of a live Painter each
\* handle the Painter created in set_texture or received through
\* register_native_texture or replace_native_texture is in the texture table,
\* in the deferred-delete list, or already deleted, and after destroy() every
\* such handle has been deleted.  register_native_texture overwrites the
\* entry of an identifier that is already a key of the table and drops its
\* handle.
C23_NoHandleLeaked ==
    /\ ~destroyed =>
           \A h \in 1..(nextHandle - 1) :
               \/ h \in HandlesOf(textures)
               \/ h \in Range(textures_to_destroy)
               \/ h \in deleted
    /\ lastOp.name = "destroy" => \A h \in 1..(nextHandle - 1) : h \in deleted

---------------------------------------------------------------------------
\* C24: paint_primitives leaves the Painter's resource bookkeeping as it
\* was: for every primitive list, lists with callbacks included, the texture
\* table, the deferred-delete list, the native identifier counter and the
\* destroyed flag are the same after the call as before it, and the call
\* creates and deletes no texture.
C24_PaintKeepsBookkeeping ==
    lastOp.name = "paint_primitives" =>
        /\ PainterUnchanged
        /\ nextHandle = pre.nextHandle
        /\ Count(glLog, "create_texture") = 0
        /\ Count(glLog, "delete_texture") = 0

\* A frame of a callback and a mesh, painted by a Painter whose table holds
\* textures, whose deferred-delete list has an entry and whose counter has
\* moved.
C24_Witness ==
    /\ lastOp.name = "paint_primitives" /\ outcome = "ok"
    /\ Count(glLog, "callback.f") = 1
    /\ Len(draws) = 1
    /\ textures # <<>> /\ textures_to_destroy # <<>>
    /\ next_native_tex_id # NativeIdStart

---------------------------------------------------------------------------
\* C25: a sub-region pixel replacement is only issued against a texture
\* handle whose storage a full-image upload has allocated: over any sequence
\* of set_texture and free_texture calls, every tex_sub_image_2d is issued for
\* a handle that has had a tex_image_2d since it was created.  set_texture
\* with an offset, for an identifier that is not in the table, creates the
\* texture and issues the sub-region upload for it.
C25_SubImageAfterFullUpload ==
    lastOp.name = "set_texture" =>
        \A k \in DOMAIN glLog :
            glLog[k].cmd = "tex_sub_image_2d" => glLog[k].arg[1] \in allocated

====
